---- MODULE Spec2Model ----
(***************************************************************************)
(* Peer-support chat-matching bot (bot.py, database.py, config.py).        *)
(*                                                                         *)
(* The database tables are the shared state.  Update handlers run one at   *)
(* a time (the Application is built without concurrent updates); the       *)
(* matchmaking job of the job queue runs as its own task and interleaves   *)
(* with a handler at the awaits.  The topic-selection handlers and the     *)
(* periodic job are therefore split at their commit points; the other      *)
(* handlers have a single commit and are one step each.                    *)
(*                                                                         *)
(* datetime.utcnow() is a strictly increasing clock, and the code only     *)
(* compares timestamps of one table with each other.  A timestamp is kept  *)
(* as its rank among the timestamps of its table: a new one is larger      *)
(* than all that the table holds.  The columns current_role and            *)
(* current_problem of users are written and never read; they are left out. *)
(* context.user_data['role'] is read by handle_problem_selection alone,    *)
(* which a registered account reaches once: the model forgets the value    *)
(* when the conversation ends, after which no handler reads it.            *)
(*                                                                         *)
(* Strings that the code splits or joins on "_" are sequences of symbols   *)
(* in which "_" is a symbol of its own: "role_receive_support" is          *)
(* <<"role","_","receive","_","support">>.                                 *)
(***************************************************************************)
EXTENDS Integers, Sequences, FiniteSets, TLC

VARIABLES
    users,      \* table users: row i has id i
    chats,      \* table chats: row i has id i
    messages,   \* table messages
    queue,      \* table queue_entries, in rowid order
    history,    \* table chat_history
    conv,       \* ConversationHandler state of each account
    userData,   \* context.user_data['role'] of each account, while a handler
                \* can still read it
    h,          \* the topic-selection handler in flight
    s,          \* the periodic matchmaking job in flight
    out,        \* messages the last step sent to the platform
    call        \* a function of the program called on its own: argument, result

vars == <<users, chats, messages, queue, history, conv, userData, h, s, out, call>>

----------------------------------------------------------------------------
\* Bounds of the model

MaxChats == 1
MaxMessages == 1
SweepMaxChats == 2
HistoryMaxChats == 4
MaxAgeInput == 60

Accounts == {101, 102, 103}
AgeTexts == {"abc", "13", "16"}
MessageTexts == {"hello", "badword"}

----------------------------------------------------------------------------
\* Program constants

MIN_AGE == 14
MAX_AGE == 18

WAITING_AGE == 0
WAITING_ROLE == 1
WAITING_PROBLEM == 2
END == -1

None == 0

SUPPORT == <<"support">>
RECEIVE_SUPPORT == <<"receive", "_", "support">>

STRESS_ANXIETY == <<"stress", "_", "anxiety">>
STUDY == <<"study">>
FRIENDS == <<"friends">>
Topics == {STRESS_ANXIETY, STUDY, FRIENDS}

\* callback_data of the two role buttons of the onboarding flow
RoleButtons == {<<"role", "_">> \o SUPPORT, <<"role", "_">> \o RECEIVE_SUPPORT}

\* callback_data of the two role buttons of the menu
MenuRoleButtons == {<<"menu", "_", "role", "_">> \o SUPPORT,
                    <<"menu", "_", "role", "_">> \o RECEIVE_SUPPORT}

\* callback_data of a topic button of the onboarding flow
ProblemButton(topic) == <<"problem", "_">> \o topic

\* callback_data of a topic button of the menu, built from the stored role
MenuProblemButton(role, topic) == <<"menu", "_", "problem", "_">> \o role \o <<"_">> \o topic

----------------------------------------------------------------------------
\* str.split("_") and "_".join(...)

RECURSIVE SplitFrom(_, _, _)
SplitFrom(str, i, cur) ==
    IF i > Len(str) THEN <<cur>>
    ELSE IF str[i] = "_" THEN <<cur>> \o SplitFrom(str, i + 1, <<>>)
    ELSE SplitFrom(str, i + 1, Append(cur, str[i]))

Split(str) == SplitFrom(str, 1, <<>>)

RECURSIVE Join(_)
Join(parts) ==
    IF Len(parts) = 0 THEN <<>>
    ELSE IF Len(parts) = 1 THEN parts[1]
    ELSE parts[1] \o <<"_">> \o Join(Tail(parts))

StartsWith(str, prefix) ==
    /\ Len(str) >= Len(prefix)
    /\ SubSeq(str, 1, Len(prefix)) = prefix

\* int(update.message.text): the texts that parse, and their values
IntTexts == {"1", "2", "3", "4", "5", "6", "13", "14", "15", "16", "17", "18", "19"}

ParseInt(text) ==
    CASE text = "1" -> 1
      [] text = "2" -> 2
      [] text = "3" -> 3
      [] text = "4" -> 4
      [] text = "5" -> 5
      [] text = "6" -> 6
      [] text = "13" -> 13
      [] text = "14" -> 14
      [] text = "15" -> 15
      [] text = "16" -> 16
      [] text = "17" -> 17
      [] text = "18" -> 18
      [] text = "19" -> 19

\* f"{chat.id}"
Str(n) == CHOOSE text \in IntTexts : ParseInt(text) = n

\* profanity_filter.check_profanity
ProfaneTexts == {"badword"}

check_profanity(text) == text \in ProfaneTexts

----------------------------------------------------------------------------
\* Matchmaking engine

\* variant whose row for 14 reaches one year further up
get_age_range_wide14(user_age) ==
    IF user_age = 14 THEN <<14, 17>>
    ELSE IF user_age = 15 THEN <<14, 17>>
    ELSE IF user_age = 16 THEN <<14, 18>>
    ELSE IF user_age = 17 THEN <<15, 18>>
    ELSE IF user_age = 18 THEN <<16, 18>>
    ELSE <<MIN_AGE, MAX_AGE>>
\* variant whose row for 17 is centred like the rows for 15 and 16
get_age_range_centred(user_age) ==
    IF user_age = 14 THEN <<14, 16>>
    ELSE IF user_age = 15 THEN <<14, 17>>
    ELSE IF user_age = 16 THEN <<14, 18>>
    ELSE IF user_age = 17 THEN <<15, 19>>
    ELSE IF user_age = 18 THEN <<16, 18>>
    ELSE <<MIN_AGE, MAX_AGE>>
get_age_range(user_age) ==
    IF user_age = 14 THEN <<14, 16>>
    ELSE IF user_age = 15 THEN <<14, 17>>
    ELSE IF user_age = 16 THEN <<14, 18>>
    ELSE IF user_age = 17 THEN <<15, 18>>
    ELSE IF user_age = 18 THEN <<16, 18>>
    ELSE <<MIN_AGE, MAX_AGE>>

\* the row of users with this telegram_id, or None
UserByTelegram(U, tg) ==
    IF \E i \in 1..Len(U) : U[i].telegram_id = tg
    THEN CHOOSE i \in 1..Len(U) : U[i].telegram_id = tg
    ELSE None

\* the row of queue_entries of this user, or None
QueueIndex(Q, uid) ==
    IF \E i \in 1..Len(Q) : Q[i].user_id = uid
    THEN CHOOSE i \in 1..Len(Q) : Q[i].user_id = uid
    ELSE None

\* joined_at as ranks 1..Len(Q), in the same order
Ranked(Q) ==
    IF Len(Q) = 0 THEN <<>> ELSE
    [i \in 1..Len(Q) |->
        [Q[i] EXCEPT !.joined_at =
            Cardinality({j \in 1..Len(Q) : Q[j].joined_at <= Q[i].joined_at})]]

\* datetime.utcnow() as a joined_at: later than every entry
UtcNow(Q) == Len(Q) + 1

\* variant whose update branch leaves joined_at as it was
add_to_queue_keep_joined(Q, uid, role, problem, age) ==
    LET existing == QueueIndex(Q, uid)
        entry == [user_id |-> uid, role |-> role, problem_type |-> problem,
                  age |-> age, joined_at |-> UtcNow(Q)]
    IN  IF existing # None
        THEN [Q EXCEPT ![existing] = [entry EXCEPT !.joined_at = Q[existing].joined_at]]
        ELSE Append(Q, entry)
\* add_to_queue and its commit
add_to_queue(Q, uid, role, problem, age) ==
    LET existing == QueueIndex(Q, uid)
        entry == [user_id |-> uid, role |-> role, problem_type |-> problem,
                  age |-> age, joined_at |-> UtcNow(Q)]
    IN  IF existing # None
        THEN Ranked([Q EXCEPT ![existing] = entry])
        ELSE Append(Q, entry)

RECURSIVE DeleteEntries(_, _)
DeleteEntries(Q, uid) ==
    IF Len(Q) = 0 THEN <<>>
    ELSE IF Q[1].user_id = uid THEN DeleteEntries(Tail(Q), uid)
    ELSE <<Q[1]>> \o DeleteEntries(Tail(Q), uid)

remove_from_queue(Q, uid) == Ranked(DeleteEntries(Q, uid))

\* variant with the test written on the other role name
OppositeRoleOfReceive(role) == IF role = RECEIVE_SUPPORT THEN SUPPORT ELSE RECEIVE_SUPPORT
\* opposite_role of find_match, role2 of create_chat
OppositeRole(role) == IF role = SUPPORT THEN RECEIVE_SUPPORT ELSE SUPPORT

\* variant of the query without the condition on is_banned
MatchRowsWithBanned(U, Q, uid, role, problem) ==
    LET range == get_age_range(U[uid].age)
    IN  { i \in 1..Len(Q) :
            /\ Q[i].user_id \in 1..Len(U)
            /\ Q[i].user_id # uid
            /\ Q[i].role = OppositeRole(role)
            /\ Q[i].problem_type = problem
            /\ U[Q[i].user_id].age >= range[1]
            /\ U[Q[i].user_id].age <= range[2]
            /\ U[Q[i].user_id].current_chat_id = None }
\* the rows the query of find_match selects
MatchRows(U, Q, uid, role, problem) ==
    LET range == get_age_range(U[uid].age)
    IN  { i \in 1..Len(Q) :
            /\ Q[i].user_id \in 1..Len(U)
            /\ Q[i].user_id # uid
            /\ Q[i].role = OppositeRole(role)
            /\ Q[i].problem_type = problem
            /\ U[Q[i].user_id].age >= range[1]
            /\ U[Q[i].user_id].age <= range[2]
            /\ U[Q[i].user_id].is_banned = FALSE
            /\ U[Q[i].user_id].current_chat_id = None }

\* result.first() of the query ordered by joined_at
FirstRow(Q, rows) ==
    CHOOSE i \in rows : \A j \in rows : Q[i].joined_at <= Q[j].joined_at

find_match(U, Q, uid, role, problem) ==
    LET rows == MatchRows(U, Q, uid, role, problem)
    IN  IF rows = {} THEN None
        ELSE LET matched == Q[FirstRow(Q, rows)].user_id
                 mrange == get_age_range(U[matched].age)
             IN  IF mrange[1] <= U[uid].age /\ U[uid].age <= mrange[2]
                 THEN matched
                 ELSE None

NewChat(uid1, uid2, role1, problem) ==
    [user1_id |-> uid1, user2_id |-> uid2, role1 |-> role1,
     role2 |-> OppositeRole(role1), problem_type |-> problem,
     is_active |-> TRUE, ended_at |-> None]

\* variant that rewrites the rows of both users with the column defaults
create_chat_users_fresh(U, uid1, uid2, cid) ==
    [U EXCEPT ![uid1].current_chat_id = cid, ![uid1].is_banned = FALSE,
              ![uid2].current_chat_id = cid, ![uid2].is_banned = FALSE]
\* create_chat followed by the commit: both current_chat_id point at the chat
create_chat_users(U, uid1, uid2, cid) ==
    [U EXCEPT ![uid1].current_chat_id = cid, ![uid2].current_chat_id = cid]

Msg(to, kind, body) == [to |-> to, kind |-> kind, body |-> body]

----------------------------------------------------------------------------
\* Initial state: empty tables, no conversation, nothing in flight

NoHandler ==
    [pc |-> "idle", flow |-> "none", acct |-> None, user |-> None,
     role |-> <<>>, problem |-> <<>>, match |-> None]

NoSweep ==
    [pc |-> "idle", entries |-> <<>>, i |-> 0, processed |-> {},
     loaded |-> <<>>, user |-> None, match |-> None]

\* no function is being called on its own
NoCall == [arg |-> 0, ret |-> <<>>]

\* the tables are empty, nothing is in flight
InitProgram ==
    /\ users = <<>>
    /\ chats = <<>>
    /\ messages = <<>>
    /\ queue = <<>>
    /\ history = <<>>
    /\ conv = [a \in Accounts |-> END]
    /\ userData = [a \in Accounts |-> <<>>]
    /\ h = NoHandler
    /\ s = NoSweep
    /\ out = <<>>

Init == InitProgram /\ call = NoCall

Idle == h.pc = "idle"

----------------------------------------------------------------------------
\* Onboarding conversation

\* variant of /start that shows the menu to every registered user
StartWithoutBanCheck(a) ==
    /\ Idle
    /\ LET uid == UserByTelegram(users, a)
       IN  IF uid # None
           THEN out' = <<Msg(a, "main_menu", <<>>)>>
           ELSE out' = <<Msg(a, "ask_age", <<>>)>>
    /\ conv' = [conv EXCEPT ![a] =
                   IF UserByTelegram(users, a) # None THEN END ELSE WAITING_AGE]
    /\ userData' = [userData EXCEPT ![a] = <<>>]
    /\ UNCHANGED <<users, chats, messages, queue, history, h, s>>
    /\ UNCHANGED call
\* /start: entry point and fallback of the conversation
Start(a) ==
    /\ Idle
    /\ LET uid == UserByTelegram(users, a)
       IN  IF uid # None
           THEN IF users[uid].is_banned
                THEN out' = <<Msg(a, "blocked", <<>>)>>
                ELSE out' = <<Msg(a, "main_menu", <<>>)>>
           ELSE out' = <<Msg(a, "ask_age", <<>>)>>
    /\ conv' = [conv EXCEPT ![a] =
                   IF UserByTelegram(users, a) # None THEN END ELSE WAITING_AGE]
    /\ userData' = [userData EXCEPT ![a] = <<>>]
    /\ UNCHANGED <<users, chats, messages, queue, history, h, s>>
    /\ UNCHANGED call

\* variant that stores the lower limit instead of the age that was sent
NewUserOfMinAge(tg, age) ==
    [telegram_id |-> tg, age |-> MIN_AGE, is_banned |-> FALSE, current_chat_id |-> None]
\* the row handle_age adds
NewUser(tg, age) ==
    [telegram_id |-> tg, age |-> age, is_banned |-> FALSE, current_chat_id |-> None]

\* text in WAITING_AGE
handle_age(a, text) ==
    /\ Idle
    /\ conv[a] = WAITING_AGE
    /\ IF text \notin IntTexts
       THEN \* ValueError
            /\ out' = <<Msg(a, "age_not_a_number", <<>>)>>
            /\ UNCHANGED <<users, conv>>
       ELSE IF ParseInt(text) < MIN_AGE \/ ParseInt(text) > MAX_AGE
       THEN /\ out' = <<Msg(a, "age_out_of_range", <<>>)>>
            /\ UNCHANGED <<users, conv>>
       ELSE IF UserByTelegram(users, a) # None
       THEN \* unique constraint on telegram_id: the commit raises
            /\ out' = <<>>
            /\ UNCHANGED <<users, conv>>
       ELSE /\ users' = Append(users, NewUser(a, ParseInt(text)))
            /\ conv' = [conv EXCEPT ![a] = WAITING_ROLE]
            /\ out' = <<Msg(a, "registered_choose_role", <<>>)>>
    /\ UNCHANGED <<chats, messages, queue, history, userData, h, s>>
    /\ UNCHANGED call

\* a role button in WAITING_ROLE
handle_role_selection(a, data) ==
    /\ Idle
    /\ conv[a] = WAITING_ROLE
    /\ StartsWith(data, <<"role", "_">>)
    /\ userData' = [userData EXCEPT ![a] = Split(data)[2]]
    /\ conv' = [conv EXCEPT ![a] = WAITING_PROBLEM]
    /\ out' = <<Msg(a, "choose_problem", <<>>)>>
    /\ UNCHANGED <<users, chats, messages, queue, history, h, s>>
    /\ UNCHANGED call

\* the part of both topic-selection handlers up to the commit of add_to_queue
Admit(flow, a, uid, role, problem) ==
    /\ queue' = add_to_queue(queue, uid, role, problem, users[uid].age)
    /\ h' = [pc |-> "find", flow |-> flow, acct |-> a, user |-> uid,
             role |-> role, problem |-> problem, match |-> None]
    /\ out' = <<Msg(a, "searching", <<>>)>>

\* a topic button in WAITING_PROBLEM
handle_problem_selection(a, data) ==
    /\ Idle
    /\ conv[a] = WAITING_PROBLEM
    /\ StartsWith(data, <<"problem", "_">>)
    /\ LET problem == Join(Tail(Split(data)))
           uid == UserByTelegram(users, a)
       IN  IF uid = None
           THEN /\ out' = <<Msg(a, "user_not_found", <<>>)>>
                /\ conv' = [conv EXCEPT ![a] = END]
                /\ UNCHANGED <<queue, h>>
           ELSE /\ Admit("onboarding", a, uid, userData[a], problem)
                /\ UNCHANGED conv
    /\ userData' = [userData EXCEPT ![a] = <<>>]
    /\ UNCHANGED <<users, chats, messages, history, s>>
    /\ UNCHANGED call

\* find_match of the handler in flight
HandlerFindMatch ==
    /\ h.pc = "find"
    /\ LET match == find_match(users, queue, h.user, h.role, h.problem)
       IN  IF match # None
           THEN /\ h' = [h EXCEPT !.pc = "create", !.match = match]
                /\ out' = <<>>
                /\ UNCHANGED conv
           ELSE /\ h' = NoHandler
                /\ out' = <<Msg(h.acct, "queued", <<>>)>>
                /\ conv' = IF h.flow = "onboarding"
                           THEN [conv EXCEPT ![h.acct] = END] ELSE conv
    /\ UNCHANGED <<users, chats, messages, queue, history, userData, s>>
    /\ UNCHANGED call

\* create_chat and its commit
HandlerCreateChat(maxChats) ==
    /\ h.pc = "create"
    /\ Len(chats) < maxChats
    /\ chats' = Append(chats, NewChat(h.user, h.match, h.role, h.problem))
    /\ users' = create_chat_users(users, h.user, h.match, Len(chats) + 1)
    /\ h' = [h EXCEPT !.pc = "dequeue"]
    /\ out' = <<>>
    /\ UNCHANGED <<messages, queue, history, conv, userData, s>>
    /\ UNCHANGED call

\* remove_from_queue of both sides
HandlerDequeue ==
    /\ h.pc = "dequeue"
    /\ queue' = remove_from_queue(remove_from_queue(queue, h.user), h.match)
    /\ h' = [h EXCEPT !.pc = "notify"]
    /\ out' = <<>>
    /\ UNCHANGED <<users, chats, messages, history, conv, userData, s>>
    /\ UNCHANGED call

\* the two "partner found" messages; the handler returns
HandlerNotify ==
    /\ h.pc = "notify"
    /\ out' = <<Msg(users[h.user].telegram_id, "partner_found", <<>>),
                Msg(users[h.match].telegram_id, "partner_found", <<>>)>>
    /\ h' = NoHandler
    /\ conv' = IF h.flow = "onboarding" THEN [conv EXCEPT ![h.acct] = END] ELSE conv
    /\ UNCHANGED <<users, chats, messages, queue, history, userData, s>>
    /\ UNCHANGED call

----------------------------------------------------------------------------
\* Message relay

\* variant with the two sides of the comparison exchanged
PartnerIdSwapped(chat, uid) == IF chat.user1_id = uid THEN chat.user1_id ELSE chat.user2_id
\* the other participant of the chat
PartnerId(chat, uid) == IF chat.user1_id = uid THEN chat.user2_id ELSE chat.user1_id

\* variant without the early return: a banned sender is treated like any other
SenderBlockedNever(user) == FALSE
\* the early return of handle_message: a banned sender only gets the notice
SenderBlocked(user) == user.is_banned

\* text outside WAITING_AGE
handle_message(a, text, maxMessages) ==
    /\ Idle
    /\ conv[a] # WAITING_AGE
    /\ LET uid == UserByTelegram(users, a)
       IN  IF uid = None
           THEN /\ out' = <<Msg(a, "please_start", <<>>)>>
                /\ UNCHANGED <<users, messages>>
           ELSE IF SenderBlocked(users[uid])
           THEN /\ out' = <<Msg(a, "blocked", <<>>)>>
                /\ UNCHANGED <<users, messages>>
           ELSE IF check_profanity(text)
           THEN /\ users' = [users EXCEPT ![uid].is_banned = TRUE]
                /\ out' = <<Msg(a, "banned_for_profanity", <<>>)>>
                /\ UNCHANGED messages
           ELSE IF users[uid].current_chat_id = None
           THEN /\ out' = <<Msg(a, "no_active_chat", <<>>)>>
                /\ UNCHANGED <<users, messages>>
           ELSE LET chat_id == users[uid].current_chat_id
                IN  IF chat_id \notin 1..Len(chats) \/ ~chats[chat_id].is_active
                    THEN /\ out' = <<Msg(a, "chat_not_active", <<>>)>>
                         /\ UNCHANGED <<users, messages>>
                    ELSE LET partner_id == PartnerId(chats[chat_id], uid)
                         IN  IF partner_id \notin 1..Len(users)
                             THEN /\ out' = <<Msg(a, "partner_not_found", <<>>)>>
                                  /\ UNCHANGED <<users, messages>>
                             ELSE /\ Len(messages) < maxMessages
                                  /\ messages' = Append(messages,
                                        [chat_id |-> chat_id, user_id |-> uid, text |-> text])
                                  /\ out' = <<Msg(users[partner_id].telegram_id, "relay", <<text>>)>>
                                  /\ UNCHANGED users
    /\ UNCHANGED <<chats, queue, history, conv, userData, h, s>>
    /\ UNCHANGED call

----------------------------------------------------------------------------
\* Chat history

\* the row of chat_history of this user and chat, or None
HistoryIndex(H, uid, cid) ==
    IF \E i \in 1..Len(H) : H[i].user_id = uid /\ H[i].chat_id = cid
    THEN CHOOSE i \in 1..Len(H) : H[i].user_id = uid /\ H[i].chat_id = cid
    ELSE None

HistoryCount(H, uid) == Cardinality({i \in 1..Len(H) : H[i].user_id = uid})

\* the row of this user with the oldest viewed_at
OldestEntry(H, uid) ==
    CHOOSE i \in 1..Len(H) :
        /\ H[i].user_id = uid
        /\ \A j \in 1..Len(H) : H[j].user_id = uid => H[i].viewed_at <= H[j].viewed_at

\* datetime.utcnow() as a viewed_at: later than every entry of the user
ViewedNow(H, uid) ==
    LET times == {H[i].viewed_at : i \in {j \in 1..Len(H) : H[j].user_id = uid}}
    IN  IF times = {} THEN 1 ELSE (CHOOSE t \in times : \A x \in times : x <= t) + 1

\* session.delete(old_entry): AsyncSession.delete is a coroutine function and
\* the call is not awaited, so the coroutine never runs and no row is deleted
session_delete(H, i) == H

\* variant in which the new row is built but never added to the session
record_history_not_added(H, uid, cid) ==
    LET existing == HistoryIndex(H, uid, cid)
    IN  IF existing = None
        THEN H
        ELSE [H EXCEPT ![existing].viewed_at = ViewedNow(H, uid)]
\* what end_chat does to chat_history for one participant
record_history(H, uid, cid) ==
    LET existing == HistoryIndex(H, uid, cid)
    IN  IF existing = None
        THEN Append(IF HistoryCount(H, uid) >= 3
                    THEN session_delete(H, OldestEntry(H, uid))
                    ELSE H,
                    [user_id |-> uid, chat_id |-> cid, viewed_at |-> ViewedNow(H, uid)])
        ELSE [H EXCEPT ![existing].viewed_at = ViewedNow(H, uid)]

\* rows of this user by viewed_at descending, limit n
RECURSIVE RecentEntries(_, _, _)
RecentEntries(H, rows, n) ==
    IF n = 0 \/ rows = {} THEN <<>>
    ELSE LET top == CHOOSE i \in rows : \A j \in rows : H[i].viewed_at >= H[j].viewed_at
         IN  <<top>> \o RecentEntries(H, rows \ {top}, n - 1)

\* the view_chat_ buttons show_chat_history renders
show_chat_history(a, uid) ==
    LET rows == RecentEntries(history, {i \in 1..Len(history) : history[i].user_id = uid}, 3)
    IN  IF Len(rows) = 0
        THEN <<Msg(a, "history_empty", <<>>)>>
        ELSE <<Msg(a, "history_list", [k \in 1..Len(rows) |-> Str(history[rows[k]].chat_id)])>>

RECURSIVE Transcript(_, _, _)
Transcript(M, uid, chat_id) ==
    IF Len(M) = 0 THEN <<>>
    ELSE (IF M[1].chat_id = chat_id
          THEN <<IF M[1].user_id = uid THEN "You" ELSE "Interlocutor", M[1].text>>
          ELSE <<>>) \o Transcript(Tail(M), uid, chat_id)

view_chat_history(a, uid, chat_id) ==
    IF chat_id \notin 1..Len(chats)
    THEN <<Msg(a, "chat_not_found", <<>>)>>
    ELSE IF Transcript(messages, uid, chat_id) = <<>>
    THEN <<Msg(a, "no_messages", <<>>)>>
    ELSE <<Msg(a, "transcript", Transcript(messages, uid, chat_id))>>

----------------------------------------------------------------------------
\* Menu router

\* datetime.utcnow() as an ended_at: later than every ended chat
EndedNow(C) == Cardinality({c \in 1..Len(C) : C[c].ended_at # None}) + 1

\* variant without the reply to a user who has no current chat
EndChatWithoutReply(a, uid) ==
    LET cid == users[uid].current_chat_id
    IN  IF cid = None
        THEN /\ out' = <<>>
             /\ UNCHANGED <<users, chats, history>>
        ELSE IF cid \notin 1..Len(chats)
        THEN /\ out' = <<Msg(a, "chat_not_found", <<>>)>>
             /\ UNCHANGED <<users, chats, history>>
        ELSE LET partner_id == PartnerId(chats[cid], uid)
                 found == partner_id \in 1..Len(users)
             IN  /\ chats' = [chats EXCEPT ![cid].is_active = FALSE,
                                            ![cid].ended_at = EndedNow(chats)]
                 /\ users' = IF found
                             THEN [users EXCEPT ![partner_id].current_chat_id = None,
                                                ![uid].current_chat_id = None]
                             ELSE [users EXCEPT ![uid].current_chat_id = None]
                 /\ history' = IF found
                               THEN record_history(record_history(history, uid, cid),
                                                   partner_id, cid)
                               ELSE record_history(history, uid, cid)
                 /\ out' = IF found
                           THEN <<Msg(users[partner_id].telegram_id, "partner_ended_chat", <<>>),
                                  Msg(a, "chat_ended", <<>>)>>
                           ELSE <<Msg(a, "chat_ended", <<>>)>>
\* the end_chat branch
EndChat(a, uid) ==
    LET cid == users[uid].current_chat_id
    IN  IF cid = None
        THEN /\ out' = <<Msg(a, "no_active_chat", <<>>)>>
             /\ UNCHANGED <<users, chats, history>>
        ELSE IF cid \notin 1..Len(chats)
        THEN /\ out' = <<Msg(a, "chat_not_found", <<>>)>>
             /\ UNCHANGED <<users, chats, history>>
        ELSE LET partner_id == PartnerId(chats[cid], uid)
                 found == partner_id \in 1..Len(users)
             IN  /\ chats' = [chats EXCEPT ![cid].is_active = FALSE,
                                            ![cid].ended_at = EndedNow(chats)]
                 /\ users' = IF found
                             THEN [users EXCEPT ![partner_id].current_chat_id = None,
                                                ![uid].current_chat_id = None]
                             ELSE [users EXCEPT ![uid].current_chat_id = None]
                 /\ history' = IF found
                               THEN record_history(record_history(history, uid, cid),
                                                   partner_id, cid)
                               ELSE record_history(history, uid, cid)
                 /\ out' = IF found
                           THEN <<Msg(users[partner_id].telegram_id, "partner_ended_chat", <<>>),
                                  Msg(a, "chat_ended", <<>>)>>
                           ELSE <<Msg(a, "chat_ended", <<>>)>>

\* the menu_problem_ branch up to the commit of add_to_queue
MenuProblem(a, uid, data) ==
    LET parts == Split(data)
    IN  Admit("menu", a, uid, parts[3], Join(SubSeq(parts, 4, Len(parts))))

\* The keyboards of the menu are sent by /start to a registered user, which
\* ends the conversation of the account; registration leaves it only by ending.
MenuShown(a) == UserByTelegram(users, a) # None /\ conv[a] = END

\* a button press that the conversation does not take
handle_callback(a, data) ==
    /\ Idle
    /\ MenuShown(a)
    /\ ~(conv[a] = WAITING_ROLE /\ StartsWith(data, <<"role", "_">>))
    /\ ~(conv[a] = WAITING_PROBLEM /\ StartsWith(data, <<"problem", "_">>))
    /\ LET uid == UserByTelegram(users, a)
       IN  IF uid = None \/ (uid # None /\ users[uid].is_banned)
           THEN /\ out' = <<Msg(a, "access_denied", <<>>)>>
                /\ UNCHANGED <<users, chats, queue, history, userData, h>>
           ELSE IF data = <<"find", "_", "match">>
           THEN /\ out' = <<Msg(a, "choose_role", <<>>)>>
                /\ UNCHANGED <<users, chats, queue, history, userData, h>>
           ELSE IF StartsWith(data, <<"menu", "_", "role", "_">>)
           THEN \* context.user_data['role'] = Split(data)[3], read by no handler
                /\ out' = <<Msg(a, "choose_problem", <<>>)>>
                /\ UNCHANGED <<users, chats, queue, history, userData, h>>
           ELSE IF StartsWith(data, <<"menu", "_", "problem", "_">>)
           THEN /\ MenuProblem(a, uid, data)
                /\ UNCHANGED <<users, chats, history, userData>>
           ELSE IF data = <<"chat", "_", "history">>
           THEN /\ out' = show_chat_history(a, uid)
                /\ UNCHANGED <<users, chats, queue, history, userData, h>>
           ELSE IF data = <<"end", "_", "chat">>
           THEN /\ EndChat(a, uid)
                /\ UNCHANGED <<queue, userData, h>>
           ELSE IF StartsWith(data, <<"view", "_", "chat", "_">>)
           THEN /\ out' = view_chat_history(a, uid, ParseInt(Split(data)[3][1]))
                /\ UNCHANGED <<users, chats, queue, history, userData, h>>
           ELSE IF data = <<"back", "_", "to", "_", "menu">>
           THEN /\ out' = <<Msg(a, "main_menu", <<>>)>>
                /\ UNCHANGED <<users, chats, queue, history, userData, h>>
           ELSE /\ out' = <<>>
                /\ UNCHANGED <<users, chats, queue, history, userData, h>>
    /\ UNCHANGED <<messages, conv, s>>
    /\ UNCHANGED call

----------------------------------------------------------------------------
\* Periodic matchmaking job.  Its session lives for the whole run and is
\* created with expire_on_commit=False: a User object it has loaded keeps the
\* attributes of the first load (s.loaded), whatever is committed meanwhile.

\* the first entry at or after i whose user is not in processed_users
RECURSIVE NextEntry(_, _, _)
NextEntry(entries, i, processed) ==
    IF i > Len(entries) THEN i
    ELSE IF entries[i].user_id \in processed THEN NextEntry(entries, i + 1, processed)
    ELSE i

\* the loop goes on with the next entry, or the job returns
Continue(entries, i, processed, loaded) ==
    LET j == NextEntry(entries, i, processed)
    IN  IF j > Len(entries) THEN NoSweep
        ELSE [pc |-> "load", entries |-> entries, i |-> j, processed |-> processed,
              loaded |-> loaded, user |-> None, match |-> None]

\* the attributes of a User object as loaded from its row
Snapshot(U, uid) ==
    [is_banned |-> U[uid].is_banned, current_chat_id |-> U[uid].current_chat_id]

\* loading rows into the session: objects already present are not refreshed
Load(loaded, U, ids) == loaded @@ [uid \in ids |-> Snapshot(U, uid)]

\* variant that reports a run that found nothing to do
SweepStartReportingEmpty ==
    /\ s.pc = "idle"
    /\ s' = Continue(queue, 1, {}, <<>>)
    /\ out' = IF queue = <<>> THEN <<Msg(None, "nothing_to_do", <<>>)>> ELSE <<>>
    /\ UNCHANGED <<users, chats, messages, queue, history, conv, userData, h>>
    /\ UNCHANGED call
\* select(QueueEntry)
SweepStart ==
    /\ s.pc = "idle"
    /\ s' = Continue(queue, 1, {}, <<>>)
    /\ out' = <<>>
    /\ UNCHANGED <<users, chats, messages, queue, history, conv, userData, h>>
    /\ UNCHANGED call

\* the user of the entry: a stale entry is removed
SweepLoadUser ==
    /\ s.pc = "load"
    /\ LET uid == s.entries[s.i].user_id
           exists == uid \in 1..Len(users)
           loaded == IF exists THEN Load(s.loaded, users, {uid}) ELSE s.loaded
       IN  IF ~exists \/ (exists /\ (loaded[uid].is_banned \/ loaded[uid].current_chat_id # None))
           THEN /\ queue' = remove_from_queue(queue, uid)
                /\ s' = Continue(s.entries, s.i + 1, s.processed, loaded)
           ELSE /\ s' = [s EXCEPT !.pc = "find", !.user = uid, !.loaded = loaded]
                /\ UNCHANGED queue
    /\ out' = <<>>
    /\ UNCHANGED <<users, chats, messages, history, conv, userData, h>>
    /\ UNCHANGED call

\* find_match and the check that the match has no chat
SweepFindMatch ==
    /\ s.pc = "find"
    /\ LET entry == s.entries[s.i]
           rows == MatchRows(users, queue, s.user, entry.role, entry.problem_type)
           loaded == Load(s.loaded, users, {queue[i].user_id : i \in rows})
           match == find_match(users, queue, s.user, entry.role, entry.problem_type)
       IN  IF match # None /\ loaded[match].current_chat_id = None
           THEN s' = [s EXCEPT !.pc = "create", !.match = match, !.loaded = loaded]
           ELSE s' = Continue(s.entries, s.i + 1, s.processed \cup {s.user}, loaded)
    /\ out' = <<>>
    /\ UNCHANGED <<users, chats, messages, queue, history, conv, userData, h>>
    /\ UNCHANGED call

\* create_chat and its commit
SweepCreateChat(maxChats) ==
    /\ s.pc = "create"
    /\ Len(chats) < maxChats
    /\ LET entry == s.entries[s.i]
           cid == Len(chats) + 1
       IN  /\ chats' = Append(chats, NewChat(s.user, s.match, entry.role, entry.problem_type))
           /\ users' = create_chat_users(users, s.user, s.match, cid)
           /\ s' = [s EXCEPT !.pc = "dequeue",
                             !.loaded = [uid \in DOMAIN s.loaded |->
                                 IF uid = s.user \/ uid = s.match
                                 THEN [s.loaded[uid] EXCEPT !.current_chat_id = cid]
                                 ELSE s.loaded[uid]]]
    /\ out' = <<>>
    /\ UNCHANGED <<messages, queue, history, conv, userData, h>>
    /\ UNCHANGED call

\* remove_from_queue of both sides
SweepDequeue ==
    /\ s.pc = "dequeue"
    /\ queue' = remove_from_queue(remove_from_queue(queue, s.user), s.match)
    /\ s' = [s EXCEPT !.pc = "notify", !.processed = s.processed \cup {s.match}]
    /\ out' = <<>>
    /\ UNCHANGED <<users, chats, messages, history, conv, userData, h>>
    /\ UNCHANGED call

\* the two sends inside one try block: a send that raises skips what follows it
SweepNotify(ok1, ok2) ==
    /\ s.pc = "notify"
    /\ out' = IF ~ok1
              THEN <<Msg(users[s.user].telegram_id, "send_failed", <<>>)>>
              ELSE <<Msg(users[s.user].telegram_id, "partner_found", <<>>),
                     Msg(users[s.match].telegram_id,
                         IF ok2 THEN "partner_found" ELSE "send_failed", <<>>)>>
    /\ s' = Continue(s.entries, s.i + 1, s.processed \cup {s.user}, s.loaded)
    /\ UNCHANGED <<users, chats, messages, queue, history, conv, userData, h>>
    /\ UNCHANGED call

----------------------------------------------------------------------------
\* The buttons the bot renders

\* the role as the role buttons store it
StoredRoles == {Split(data)[2] : data \in RoleButtons}

MenuButtons(topics) ==
    {<<"find", "_", "match">>, <<"chat", "_", "history">>, <<"end", "_", "chat">>,
     <<"back", "_", "to", "_", "menu">>}
    \cup MenuRoleButtons
    \cup {MenuProblemButton(role, topic) : role \in StoredRoles, topic \in topics}

ViewButtons(maxChats) == {<<"view", "_", "chat", "_", Str(c)>> : c \in 1..maxChats}

----------------------------------------------------------------------------
\* Spec: two accounts that register, select topics, write messages and end
\* chats, one handler at a time

CoreAccounts == {101, 102}
CoreTopics == {STUDY}

\* the buttons of the menu that write to the tables
CoreButtons ==
    {<<"end", "_", "chat">>}
    \cup {MenuProblemButton(role, topic) : role \in StoredRoles, topic \in CoreTopics}

Next ==
    \/ \E a \in CoreAccounts : Start(a)
    \/ \E a \in CoreAccounts, text \in AgeTexts : handle_age(a, text)
    \/ \E a \in CoreAccounts, data \in RoleButtons : handle_role_selection(a, data)
    \/ \E a \in CoreAccounts, topic \in CoreTopics :
          handle_problem_selection(a, ProblemButton(topic))
    \/ HandlerFindMatch
    \/ HandlerCreateChat(MaxChats)
    \/ HandlerDequeue
    \/ HandlerNotify
    \/ \E a \in CoreAccounts, text \in MessageTexts : handle_message(a, text, MaxMessages)
    \/ \E a \in CoreAccounts, data \in CoreButtons : handle_callback(a, data)

Spec == Init /\ [][Next]_vars

----------------------------------------------------------------------------
\* SpecSweep: three accounts that register and select a topic, and the
\* periodic job interleaved with them at its awaits

SweepTopics == {STUDY}
SweepAgeTexts == {"16"}

NextSweep ==
    \/ \E a \in Accounts : Start(a)
    \/ \E a \in Accounts, text \in SweepAgeTexts : handle_age(a, text)
    \/ \E a \in Accounts, data \in RoleButtons : handle_role_selection(a, data)
    \/ \E a \in Accounts, topic \in SweepTopics :
          handle_problem_selection(a, ProblemButton(topic))
    \/ HandlerFindMatch
    \/ HandlerCreateChat(SweepMaxChats)
    \/ HandlerDequeue
    \/ HandlerNotify
    \/ SweepStart
    \/ SweepLoadUser
    \/ SweepFindMatch
    \/ SweepCreateChat(SweepMaxChats)
    \/ SweepDequeue
    \/ \E ok1, ok2 \in BOOLEAN : SweepNotify(ok1, ok2)

SpecSweep == Init /\ [][NextSweep]_vars

----------------------------------------------------------------------------
\* SpecHistory: two accounts that register, go through Find a partner and
\* End current chat again and again

HistoryAccounts == {101, 102}
HistoryTopics == {STUDY}
HistoryAgeTexts == {"16"}

HistoryButtons ==
    {<<"end", "_", "chat">>}
    \cup {MenuProblemButton(role, topic) : role \in StoredRoles, topic \in HistoryTopics}

NextHistory ==
    \/ \E a \in HistoryAccounts : Start(a)
    \/ \E a \in HistoryAccounts, text \in HistoryAgeTexts : handle_age(a, text)
    \/ \E a \in HistoryAccounts, data \in RoleButtons : handle_role_selection(a, data)
    \/ \E a \in HistoryAccounts, topic \in HistoryTopics :
          handle_problem_selection(a, ProblemButton(topic))
    \/ HandlerFindMatch
    \/ HandlerCreateChat(HistoryMaxChats)
    \/ HandlerDequeue
    \/ HandlerNotify
    \/ \E a \in HistoryAccounts, data \in HistoryButtons : handle_callback(a, data)

SpecHistory == Init /\ [][NextHistory]_vars

\* run_repeating starts the job every 5 seconds, and every await of a run
\* returns: each step of the job is taken if it stays possible
SweepFairness ==
    /\ WF_vars(SweepStart)
    /\ WF_vars(SweepLoadUser)
    /\ WF_vars(SweepFindMatch)
    /\ WF_vars(SweepCreateChat(SweepMaxChats))
    /\ WF_vars(SweepDequeue)
    /\ WF_vars(\E ok1, ok2 \in BOOLEAN : SweepNotify(ok1, ok2))

SpecSweepFair == SpecSweep /\ SweepFairness

----------------------------------------------------------------------------
\* The periodic job next to onboarding, with one account that sends profane
\* text.

StaleSenders == {103}
StaleMessageTexts == {"badword"}

NextStale ==
    \/ \E a \in Accounts : Start(a)
    \/ \E a \in Accounts, text \in SweepAgeTexts : handle_age(a, text)
    \/ \E a \in Accounts, data \in RoleButtons : handle_role_selection(a, data)
    \/ \E a \in Accounts, topic \in SweepTopics :
          handle_problem_selection(a, ProblemButton(topic))
    \/ HandlerFindMatch
    \/ HandlerCreateChat(SweepMaxChats)
    \/ HandlerDequeue
    \/ HandlerNotify
    \/ \E a \in StaleSenders, text \in StaleMessageTexts :
          handle_message(a, text, MaxMessages)
    \/ SweepStart
    \/ SweepLoadUser
    \/ SweepFindMatch
    \/ SweepCreateChat(SweepMaxChats)
    \/ SweepDequeue
    \/ \E ok1, ok2 \in BOOLEAN : SweepNotify(ok1, ok2)

SpecStale == Init /\ [][NextStale]_vars

----------------------------------------------------------------------------
\* Two accounts, two topics: onboarding, the topic button of the menu that
\* moves a waiting user to the other topic, and the periodic job.

TopicAccounts == {101, 102}
TopicAgeTexts == {"16"}
TopicTopics == {STUDY, FRIENDS}
TopicButtons == {MenuProblemButton(<<"receive">>, FRIENDS)}

NextTopic ==
    \/ \E a \in TopicAccounts : Start(a)
    \/ \E a \in TopicAccounts, text \in TopicAgeTexts : handle_age(a, text)
    \/ \E a \in TopicAccounts, data \in RoleButtons : handle_role_selection(a, data)
    \/ \E a \in TopicAccounts, topic \in TopicTopics :
          handle_problem_selection(a, ProblemButton(topic))
    \/ HandlerFindMatch
    \/ HandlerCreateChat(MaxChats)
    \/ HandlerDequeue
    \/ HandlerNotify
    \/ \E a \in TopicAccounts, data \in TopicButtons : handle_callback(a, data)
    \/ SweepStart
    \/ SweepLoadUser
    \/ SweepFindMatch
    \/ SweepCreateChat(MaxChats)
    \/ SweepDequeue
    \/ \E ok1, ok2 \in BOOLEAN : SweepNotify(ok1, ok2)

SpecTopic == Init /\ [][NextTopic]_vars

----------------------------------------------------------------------------
\* Two accounts of every age class: onboarding and the handler's match steps.

AgeAccounts == {101, 102}
RegAgeTexts == {"abc", "13", "14", "16", "18", "19"}

NextAge ==
    \/ \E a \in AgeAccounts : Start(a)
    \/ \E a \in AgeAccounts, text \in RegAgeTexts : handle_age(a, text)
    \/ \E a \in AgeAccounts, data \in RoleButtons : handle_role_selection(a, data)
    \/ \E a \in AgeAccounts, topic \in CoreTopics :
          handle_problem_selection(a, ProblemButton(topic))
    \/ HandlerFindMatch
    \/ HandlerCreateChat(MaxChats)
    \/ HandlerDequeue
    \/ HandlerNotify

SpecAge == Init /\ [][NextAge]_vars

----------------------------------------------------------------------------
\* get_age_range called on its own with an integer argument

AgeInputs == (0 - MaxAgeInput)..MaxAgeInput

InitAgeRange ==
    /\ InitProgram
    /\ call \in {[arg |-> n, ret |-> <<>>] : n \in AgeInputs}

CallAgeRange ==
    /\ call.ret = <<>>
    /\ call' = [call EXCEPT !.ret = get_age_range(call.arg)]
    /\ UNCHANGED <<users, chats, messages, queue, history, conv, userData, h, s, out>>

NextAgeRange == CallAgeRange

SpecAgeRange == InitAgeRange /\ [][NextAgeRange]_vars

----------------------------------------------------------------------------
\* Every operation that writes to users, for two accounts that can only send
\* profane text: onboarding, relay handler, menu and the periodic job together.

BanAgeTexts == {"16"}
BanMessageTexts == {"badword"}

\* end chat, and the topic button of the menu for the role that finds partners
BanButtons ==
    {<<"end", "_", "chat">>, MenuProblemButton(<<"receive">>, STUDY)}

NextBan ==
    \/ \E a \in CoreAccounts : Start(a)
    \/ \E a \in CoreAccounts, text \in BanAgeTexts : handle_age(a, text)
    \/ \E a \in CoreAccounts, data \in RoleButtons : handle_role_selection(a, data)
    \/ \E a \in CoreAccounts, topic \in CoreTopics :
          handle_problem_selection(a, ProblemButton(topic))
    \/ HandlerFindMatch
    \/ HandlerCreateChat(MaxChats)
    \/ HandlerDequeue
    \/ HandlerNotify
    \/ \E a \in CoreAccounts, text \in BanMessageTexts :
          handle_message(a, text, MaxMessages)
    \/ \E a \in CoreAccounts, data \in BanButtons : handle_callback(a, data)
    \/ SweepStart
    \/ SweepLoadUser
    \/ SweepFindMatch
    \/ SweepCreateChat(MaxChats)
    \/ SweepDequeue
    \/ \E ok1, ok2 \in BOOLEAN : SweepNotify(ok1, ok2)

SpecBan == Init /\ [][NextBan]_vars

----------------------------------------------------------------------------
\* Two accounts of every age from 14 to 18 and a third account aged 16:
\* onboarding and the handler's match steps.

PairAgeTexts == {"14", "15", "16", "17", "18"}
PairThirdAgeTexts == {"16"}

NextPair ==
    \/ \E a \in Accounts : Start(a)
    \/ \E a \in CoreAccounts, text \in PairAgeTexts : handle_age(a, text)
    \/ \E a \in Accounts \ CoreAccounts, text \in PairThirdAgeTexts : handle_age(a, text)
    \/ \E a \in Accounts, data \in RoleButtons : handle_role_selection(a, data)
    \/ \E a \in Accounts, topic \in CoreTopics :
          handle_problem_selection(a, ProblemButton(topic))
    \/ HandlerFindMatch
    \/ HandlerCreateChat(MaxChats)
    \/ HandlerDequeue
    \/ HandlerNotify

SpecPair == Init /\ [][NextPair]_vars

----------------------------------------------------------------------------
\* Three accounts, one handler at a time and no periodic job: onboarding,
\* Find a partner from the menu for the role that finds partners, and End
\* current chat.

MenuAgeTexts == {"16"}
MenuTopics == {STUDY}
MenuFlowButtons ==
    {<<"end", "_", "chat">>, MenuProblemButton(<<"receive">>, STUDY)}

NextMenu ==
    \/ \E a \in Accounts : Start(a)
    \/ \E a \in Accounts, text \in MenuAgeTexts : handle_age(a, text)
    \/ \E a \in Accounts, data \in RoleButtons : handle_role_selection(a, data)
    \/ \E a \in Accounts, topic \in MenuTopics :
          handle_problem_selection(a, ProblemButton(topic))
    \/ HandlerFindMatch
    \/ HandlerCreateChat(SweepMaxChats)
    \/ HandlerDequeue
    \/ HandlerNotify
    \/ \E a \in Accounts, data \in MenuFlowButtons : handle_callback(a, data)

SpecMenu == Init /\ [][NextMenu]_vars

----------------------------------------------------------------------------
\* Three accounts that register, are matched, write a message, end the chat
\* and press the buttons of the menu that only read: chat history, transcript
\* of a chat by its id, role selection, back to the menu.

ViewAgeTexts == {"16"}
ViewTopics == {STUDY}
ViewMessageTexts == {"hello"}

ViewFlowButtons ==
    {<<"find", "_", "match">>, <<"chat", "_", "history">>, <<"end", "_", "chat">>,
     <<"back", "_", "to", "_", "menu">>}
    \cup MenuRoleButtons
    \cup ViewButtons(MaxChats)

NextView ==
    \/ \E a \in Accounts : Start(a)
    \/ \E a \in Accounts, text \in ViewAgeTexts : handle_age(a, text)
    \/ \E a \in Accounts, data \in RoleButtons : handle_role_selection(a, data)
    \/ \E a \in Accounts, topic \in ViewTopics :
          handle_problem_selection(a, ProblemButton(topic))
    \/ HandlerFindMatch
    \/ HandlerCreateChat(MaxChats)
    \/ HandlerDequeue
    \/ HandlerNotify
    \/ \E a \in Accounts, text \in ViewMessageTexts : handle_message(a, text, MaxMessages)
    \/ \E a \in Accounts, data \in ViewFlowButtons : handle_callback(a, data)

SpecView == Init /\ [][NextView]_vars

----------------------------------------------------------------------------
\* Participants of a chat, and the chats of a user

Participants(chat) == {chat.user1_id, chat.user2_id}

ActiveChatsOf(uid) ==
    {c \in 1..Len(chats) : chats[c].is_active /\ uid \in Participants(chats[c])}

\* C1: no double-booking of a candidate: a user that find_match selected as
\* the match (user2_id of the chat) is never a participant of two chats that
\* are both active, whatever the interleaving of a topic-selection handler
\* with the periodic job.
C1_NoDoubleBooking ==
    \A c \in 1..Len(chats) :
        chats[c].is_active => ActiveChatsOf(chats[c].user2_id) = {c}

\* the button sequence of the race found for C1 has run: both the handler of
\* the entrant and the sweep have created a chat for the same pair
C1_Raced ==
    /\ Len(chats) = 2
    /\ Participants(chats[1]) = Participants(chats[2])

----------------------------------------------------------------------------
\* Moderation

HasActiveChat(uid) ==
    /\ users[uid].current_chat_id \in 1..Len(chats)
    /\ chats[users[uid].current_chat_id].is_active

\* uid has no queue entry before the step and has one after it
NewlyQueued(uid) == QueueIndex(queue, uid) = None /\ QueueIndex(queue', uid) # None

\* the step creates a chat that uid takes part in
JoinsNewChat(uid) ==
    /\ Len(chats') > Len(chats)
    /\ uid \in Participants(chats'[Len(chats')])

\* C2: a banned user never again becomes a queue entrant or a partner: no
\* step gives a banned user a new queue entry or puts them in a new chat.
C2_BannedNeverAdmitted ==
    [][\A uid \in 1..Len(users) :
          users[uid].is_banned => ~NewlyQueued(uid) /\ ~JoinsNewChat(uid)]_vars

\* C3: a profane message from a registered, non-banned sender bans the sender,
\* stores no message row and forwards nothing; every later message of that
\* sender is refused: nothing stored, nothing sent to anyone but the sender.
C3_Moderation ==
    [][\A a \in CoreAccounts, text \in MessageTexts :
          LET uid == UserByTelegram(users, a)
          IN  (uid # None /\ handle_message(a, text, MaxMessages)) =>
                  /\ (~users[uid].is_banned /\ check_profanity(text)) =>
                         /\ users'[uid].is_banned
                         /\ messages' = messages
                         /\ \A i \in 1..Len(out') : out'[i].to = a
                  /\ users[uid].is_banned =>
                         /\ messages' = messages
                         /\ users' = users
                         /\ \A i \in 1..Len(out') : out'[i].to = a]_vars

\* a sender with an active chat has just been banned for a profane message
C3_BannedInChat ==
    \E uid \in 1..Len(users) :
        /\ users[uid].is_banned
        /\ HasActiveChat(uid)
        /\ out = <<Msg(users[uid].telegram_id, "banned_for_profanity", <<>>)>>

\* a banned sender with an active chat has just been refused
C3_RefusedInChat ==
    \E uid \in 1..Len(users) :
        /\ users[uid].is_banned
        /\ HasActiveChat(uid)
        /\ out = <<Msg(users[uid].telegram_id, "blocked", <<>>)>>

\* C4: banned is monotonic: no step resets the banned flag of a user.
C4_BannedMonotonic ==
    [][\A uid \in 1..Len(users) : users[uid].is_banned => users'[uid].is_banned]_vars

\* a banned user has been put into a chat and the chat has been ended since
C4_BannedThroughChat ==
    \E uid \in 1..Len(users), c \in 1..Len(chats) :
        /\ users[uid].is_banned
        /\ uid \in Participants(chats[c])
        /\ ~chats[c].is_active

\* C5: no message is ever relayed to a banned user.
C5_NoRelayToBanned ==
    \A i \in 1..Len(out) :
        out[i].kind = "relay" =>
            \A uid \in 1..Len(users) :
                users[uid].telegram_id = out[i].to => ~users[uid].is_banned

\* C6: a non-profane message of a registered, non-banned sender with an active
\* chat is stored once with the chat, the sender and the text, and is sent
\* once, to the other participant and never back to the sender.
C6_Relay ==
    [][\A a \in CoreAccounts, text \in MessageTexts :
          LET uid == UserByTelegram(users, a)
          IN  (/\ uid # None
               /\ ~users[uid].is_banned
               /\ ~check_profanity(text)
               /\ HasActiveChat(uid)
               /\ handle_message(a, text, MaxMessages)) =>
                  LET cid == users[uid].current_chat_id
                  IN  /\ messages' = Append(messages,
                             [chat_id |-> cid, user_id |-> uid, text |-> text])
                      /\ Len(out') = 1
                      /\ out'[1].kind = "relay"
                      /\ out'[1].body = <<text>>
                      /\ out'[1].to # a
                      /\ \E p \in Participants(chats[cid]) \ {uid} :
                             out'[1].to = users[p].telegram_id]_vars

\* a message has just been stored and relayed
C6_Relayed ==
    /\ Len(messages) > 0
    /\ Len(out) = 1
    /\ out[1].kind = "relay"

\* what End current chat leaves behind for chat cid
ChatEnded(cid) ==
    /\ ~chats'[cid].is_active
    /\ chats'[cid].ended_at # None
    /\ \A p \in Participants(chats[cid]) :
           /\ users'[p].current_chat_id = None
           /\ Cardinality({i \in 1..Len(history') :
                  history'[i].user_id = p /\ history'[i].chat_id = cid}) = 1

C8_HistoryBound ==
    \A uid \in 1..Len(users) : HistoryCount(history, uid) <= 3

\* C9: the two role fields of every chat are the pair support and
\* receive_support.
C9_OppositeRoles ==
    \A c \in 1..Len(chats) :
        {chats[c].role1, chats[c].role2} = {SUPPORT, RECEIVE_SUPPORT}

\* the waiting users that the entrant of the running handler is to be matched
\* with: another user, not banned, without a chat, who chose the same topic
\* and the other role, each age within the tolerance range of the other
Waiting(uid, role, problem) ==
    {q \in 1..Len(queue) :
        LET cand == queue[q].user_id
        IN  /\ cand # uid
            /\ queue[q].problem_type = problem
            /\ queue[q].role \in StoredRoles \ {role}
            /\ ~users[cand].is_banned
            /\ users[cand].current_chat_id = None
            /\ LET r1 == get_age_range(users[uid].age)
                   r2 == get_age_range(users[cand].age)
               IN  /\ r1[1] <= users[cand].age /\ users[cand].age <= r1[2]
                   /\ r2[1] <= users[uid].age /\ users[uid].age <= r2[2]}

\* C10: when a user completes topic selection and an eligible entrant of the
\* other role is waiting, the engine matches them at once, whichever of the
\* two roles the user chose; otherwise the user is left in the queue.
C10_ImmediateMatch ==
    [][h.pc = "find" =>
          LET waiting == Waiting(h.user, h.role, h.problem)
          IN  IF waiting # {}
              THEN h'.pc = "create" /\ h'.match \in {queue[q].user_id : q \in waiting}
              ELSE h'.pc = "idle" /\ QueueIndex(queue', h.user) # None]_vars

----------------------------------------------------------------------------
\* Matching

\* each of the two ages lies in the tolerance range of the other
AgesCompatible(a1, a2) ==
    LET r1 == get_age_range(a1)
        r2 == get_age_range(a2)
    IN  /\ r1[1] <= a2 /\ a2 <= r1[2]
        /\ r2[1] <= a1 /\ a1 <= r2[2]

\* the step creates a chat
ChatCreated == Len(chats') = Len(chats) + 1

\* C11: every chat that is created pairs two users who are waiting for the
\* topic of the chat and whose ages are each inside the band of the other; a
\* 14-year-old and an 18-year-old are never paired.
C11_MatchingSymmetry ==
    [][ChatCreated =>
          LET chat == chats'[Len(chats')]
              u1 == chat.user1_id
              u2 == chat.user2_id
          IN  /\ AgesCompatible(users[u1].age, users[u2].age)
              /\ {users[u1].age, users[u2].age} # {14, 18}
              /\ \A p \in {u1, u2} :
                     QueueIndex(queue, p) # None =>
                         queue[QueueIndex(queue, p)].problem_type = chat.problem_type]_vars

\* the rows of queue_entries of one user
EntriesOf(Q, uid) == {i \in 1..Len(Q) : Q[i].user_id = uid}

\* a topic-selection handler has just admitted its user to the queue
Admitted == h.pc = "idle" /\ h'.pc = "find"

\* C12: there is never more than one queue entry per user; admitting a user,
\* again or for the first time, leaves exactly one entry of that user, with the
\* role, topic and age of this admission and a join time later than that of
\* every other entry.
C12_QueueUpsert ==
    [][/\ \A uid \in 1..Len(users') : Cardinality(EntriesOf(queue', uid)) <= 1
       /\ Admitted =>
              LET uid == h'.user
                  i == QueueIndex(queue', uid)
              IN  /\ Cardinality(EntriesOf(queue', uid)) = 1
                  /\ queue'[i].role = h'.role
                  /\ queue'[i].problem_type = h'.problem
                  /\ queue'[i].age = users[uid].age
                  /\ \A j \in 1..Len(queue') :
                         j # i => queue'[j].joined_at < queue'[i].joined_at]_vars

\* a waiting user has just been admitted again from the menu: the entry keeps
\* its row and is the last in join order
C12_Readmitted ==
    /\ h.pc = "find"
    /\ h.flow = "menu"
    /\ Len(queue) = 2
    /\ queue[1].user_id = h.user
    /\ queue[1].role = h.role
    /\ queue[1].joined_at = 2

\* the handler in flight has just run its find_match
HandlerSearched == h.pc = "find" /\ h'.pc # "find"

\* the waiting entrant with the earliest join time
Earliest(waiting) ==
    CHOOSE q \in waiting : \A r \in waiting : queue[q].joined_at <= queue[r].joined_at

\* C13: when several waiting entrants are eligible for the requester (other
\* role, same topic, ages in band, not banned, no current chat), find_match
\* selects the one that joined first.
C13_FifoTieBreak ==
    [][HandlerSearched =>
          LET waiting == Waiting(h.user, h.role, h.problem)
          IN  Cardinality(waiting) >= 2 =>
                  h'.match = queue[Earliest(waiting)].user_id]_vars

----------------------------------------------------------------------------
\* Age bands

\* the table of age bands
AgeBand(age) ==
    CASE age = 14 -> <<14, 16>>
      [] age = 15 -> <<14, 17>>
      [] age = 16 -> <<14, 18>>
      [] age = 17 -> <<15, 18>>
      [] age = 18 -> <<16, 18>>
      [] OTHER -> <<14, 18>>

\* C14: get_age_range returns the band of the table for 14..18 and <<14, 18>>
\* for every other integer.
C14_AgeRangeTable == call.ret # <<>> => call.ret = AgeBand(call.arg)

\* get_age_range has returned for an age outside the table
C14_ReturnedFallback == call.arg = 19 /\ call.ret = <<14, 18>>

----------------------------------------------------------------------------
\* Onboarding

\* the replies that are an age from 14 to 18, with the age they stand for
ValidAgeOf == ("14" :> 14) @@ ("16" :> 16) @@ ("18" :> 18)

\* the rows of users of one account
UsersOf(U, a) == {u \in 1..Len(U) : U[u].telegram_id = a}

\* C15: in WAITING_AGE a reply that is not a number or is outside 14..18 keeps
\* the flow in WAITING_AGE and creates no user; an age from 14 to 18 creates
\* exactly one user of the account with that age, not banned, and moves the
\* flow to WAITING_ROLE; every user stored has an age from 14 to 18.
C15_RegistrationValidation ==
    [][/\ \A u \in 1..Len(users') : users'[u].age \in 14..18
       /\ \A a \in AgeAccounts, text \in RegAgeTexts :
              handle_age(a, text) =>
                  IF text \in DOMAIN ValidAgeOf
                  THEN /\ Len(users') = Len(users) + 1
                       /\ SubSeq(users', 1, Len(users)) = users
                       /\ UsersOf(users', a) = {Len(users')}
                       /\ users'[Len(users')].age = ValidAgeOf[text]
                       /\ users'[Len(users')].is_banned = FALSE
                       /\ conv'[a] = WAITING_ROLE
                  ELSE /\ users' = users
                       /\ conv'[a] = WAITING_AGE]_vars

\* an 18-year-old has just been registered after another user
C15_Registered18 ==
    /\ Len(users) = 2
    /\ users[2].age = 18
    /\ conv[users[2].telegram_id] = WAITING_ROLE
    /\ out = <<Msg(users[2].telegram_id, "registered_choose_role", <<>>)>>

\* the moves of the flow of one account that are not made by /start
FlowMoves ==
    {<<WAITING_AGE, WAITING_AGE>>, <<WAITING_AGE, WAITING_ROLE>>,
     <<WAITING_ROLE, WAITING_PROBLEM>>, <<WAITING_PROBLEM, END>>}

\* a topic-selection handler has just returned
HandlerReturned == h.pc # "idle" /\ h'.pc = "idle"

\* C16: the flow of an account moves only WAITING_AGE -> WAITING_ROLE ->
\* WAITING_PROBLEM -> terminal, with a self-loop in WAITING_AGE; /start in any
\* state ends the flow with a refusal for a banned user, ends it with the main
\* menu for any other user, and enters WAITING_AGE when there is no user;
\* topic selection always ends the flow.
C16_OnboardingFlow ==
    [][\A a \in CoreAccounts :
          /\ (conv'[a] # conv[a] /\ ~Start(a)) => <<conv[a], conv'[a]>> \in FlowMoves
          /\ Start(a) =>
                 LET uid == UserByTelegram(users, a)
                 IN  IF uid = None
                     THEN conv'[a] = WAITING_AGE /\ out' = <<Msg(a, "ask_age", <<>>)>>
                     ELSE /\ conv'[a] = END
                          /\ out' = IF users[uid].is_banned
                                    THEN <<Msg(a, "blocked", <<>>)>>
                                    ELSE <<Msg(a, "main_menu", <<>>)>>
          /\ (HandlerReturned /\ h.acct = a) => conv'[a] = END]_vars

\* the flow of a banned user has been ended by /start before topic selection:
\* the user was never admitted to the queue
C16_BannedRefusedAtStart ==
    /\ Len(users) = 1
    /\ users[1].is_banned
    /\ conv[users[1].telegram_id] = END
    /\ out = <<Msg(users[1].telegram_id, "blocked", <<>>)>>
    /\ queue = <<>>
    /\ chats = <<>>

----------------------------------------------------------------------------
\* Periodic job

\* the job has just handled the user of a queue entry
SweepLoaded == s.pc = "load" /\ s' # s

BothWaiting(u, v) ==
    /\ u \in 1..Len(users)
    /\ v \in 1..Len(users)
    /\ QueueIndex(queue, u) # None
    /\ QueueIndex(queue, v) # None
    /\ LET eu == queue[QueueIndex(queue, u)]
           ev == queue[QueueIndex(queue, v)]
       IN  /\ eu.problem_type = ev.problem_type
           /\ eu.role \in StoredRoles
           /\ ev.role \in StoredRoles \ {eu.role}
    /\ AgesCompatible(users[u].age, users[v].age)
    /\ ~users[u].is_banned /\ ~users[v].is_banned
    /\ users[u].current_chat_id = None /\ users[v].current_chat_id = None

UserIds == 1..Cardinality(Accounts)

\* u has been put in a chat
Placed(u) == u \in 1..Len(users) /\ users[u].current_chat_id # None

\* the job has just returned from a run
SweepReturned == s.pc # "idle" /\ s'.pc = "idle"

\* both users had an entry when the running job read the queue
InSnapshot(u, v) ==
    {u, v} \subseteq {s.entries[i].user_id : i \in 1..Len(s.entries)}

\* C18: two users who fit each other and are both waiting are not both left
\* waiting by the periodic job: a run that read both entries does not return
\* with both still waiting, and under fairness of the job one of them is
\* eventually placed in a chat.
C18_SweepProgress ==
    /\ [][SweepReturned =>
             \A u, v \in UserIds :
                 (u # v /\ InSnapshot(u, v)) =>
                     ~(BothWaiting(u, v) /\ users' = users /\ queue' = queue)]_vars
    /\ \A u, v \in UserIds :
           u < v => (BothWaiting(u, v) ~> (Placed(u) \/ Placed(v)))

\* the job has placed two waiting users in a chat and is about to notify them
C18_PlacedBySweep ==
    /\ s.pc = "notify"
    /\ users[s.user].current_chat_id # None
    /\ users[s.user].current_chat_id = users[s.match].current_chat_id
    /\ QueueIndex(queue, s.user) = None
    /\ QueueIndex(queue, s.match) = None

\* the job has just sent, or failed to send, the notifications of a match
SweepNotified == s.pc = "notify" /\ s'.pc # "notify"

\* C19: when the job has created a chat and a notification fails to be sent,
\* the match is kept (chat, both current-chat references, both queue entries
\* removed), the run goes on with the remaining entries, and a notification
\* is still attempted for both sides.
C19_NotificationFailure ==
    [][SweepNotified =>
          /\ UNCHANGED <<users, chats, queue>>
          /\ s' = Continue(s.entries, s.i + 1, s.processed \cup {s.user}, s.loaded)
          /\ {out'[i].to : i \in 1..Len(out')} =
                 {users[s.user].telegram_id, users[s.match].telegram_id}]_vars

\* the handler in flight has just sent the notifications of its match
HandlerNotified == h.pc = "notify" /\ h'.pc # "notify"

\* the match of u1 and u2 is complete: their chat has been created (which sets
\* both current-chat references in the same commit) and neither has a queue
\* entry
MatchComplete(u1, u2) ==
    /\ \E c \in 1..Len(chats) : chats[c].user1_id = u1 /\ chats[c].user2_id = u2
    /\ QueueIndex(queue, u1) = None
    /\ QueueIndex(queue, u2) = None

\* the step sends a partner-found notification
SendsPartnerFound == \E i \in 1..Len(out') : out'[i].kind = "partner_found"

\* C20: on every path the partner-found notifications are sent only after the
\* chat is created, both current-chat references are set and both queue
\* entries are removed: a participant is never notified of a match while
\* either participant is still in the queue.
C20_MatchStepOrdering ==
    [][/\ SendsPartnerFound => (HandlerNotified \/ SweepNotified)
       /\ (HandlerNotified /\ SendsPartnerFound) => MatchComplete(h.user, h.match)
       /\ (SweepNotified /\ SendsPartnerFound) => MatchComplete(s.user, s.match)]_vars

\* C21: a run of the periodic job on an empty queue creates no chat, changes
\* no user, queue, chat or history state, sends nothing and returns at once;
\* however often it runs, the state stays as it was.
C21_SweepIdempotence ==
    [][(SweepStart /\ queue = <<>>) =>
          /\ UNCHANGED <<users, chats, messages, queue, history, conv, userData, h>>
          /\ s' = NoSweep
          /\ out' = <<>>]_vars

\* the job has just run on an empty queue, after the first user registered
C21_RanOnEmptyQueue ==
    /\ Len(users) = 1
    /\ conv[users[1].telegram_id] = WAITING_ROLE
    /\ queue = <<>>
    /\ chats = <<>>
    /\ s = NoSweep
    /\ out = <<>>

----------------------------------------------------------------------------
\* End current chat

\* the replies that report an error to the user who pressed the button
ErrorReplies == {"no_active_chat", "chat_not_found", "access_denied"}

\* C22: when a user without a current chat (or whose current chat has no
\* record) presses End current chat, an error is reported to that user, no
\* user, chat, history or queue state changes and no partner is notified.
C22_EndWithoutChat ==
    [][\A a \in HistoryAccounts :
          LET uid == UserByTelegram(users, a)
          IN  (/\ uid # None
               /\ users[uid].current_chat_id \notin 1..Len(chats)
               /\ handle_callback(a, <<"end", "_", "chat">>)) =>
                  /\ UNCHANGED <<users, chats, messages, queue, history>>
                  /\ Len(out') = 1
                  /\ out'[1].to = a
                  /\ out'[1].kind \in ErrorReplies]_vars

\* a user whose chat has been ended has pressed End current chat again
C22_RefusedAfterEnd ==
    /\ Len(chats) = 1
    /\ ~chats[1].is_active
    /\ Len(history) = 2
    /\ Len(out) = 1
    /\ out[1].kind = "no_active_chat"
    /\ \A u \in 1..Len(users) : users[u].current_chat_id = None

----------------------------------------------------------------------------
\* Candidates

\* find_match of the handler, or of the job, has just returned a user
HandlerSelected == h.pc = "find" /\ h'.pc = "create"
SweepSelected == s.pc = "find" /\ s'.pc = "create"

\* m can be matched with uid on this topic: another user, not banned, without
\* a current chat, with a queue entry for the topic
Eligible(m, uid, problem) ==
    /\ m \in 1..Len(users)
    /\ m # uid
    /\ ~users[m].is_banned
    /\ users[m].current_chat_id = None
    /\ \E q \in 1..Len(queue) : queue[q].user_id = m /\ queue[q].problem_type = problem

\* C23: the user find_match returns is never the requester, is not banned and
\* has no current chat at the time of the selection, and has a queue entry
\* with the topic searched for; every chat has two different users.
C23_CandidateEligibility ==
    [][/\ HandlerSelected => Eligible(h'.match, h.user, h.problem)
       /\ SweepSelected => Eligible(s'.match, s.user, s.entries[s.i].problem_type)
       /\ \A c \in 1..Len(chats') : chats'[c].user1_id # chats'[c].user2_id]_vars

\* find_match of the handler has returned a waiting user who is not banned
C23_SelectedWaiting ==
    /\ h.pc = "create"
    /\ h.match # h.user
    /\ QueueIndex(queue, h.match) # None
    /\ ~users[h.match].is_banned
    /\ users[h.match].current_chat_id = None

----------------------------------------------------------------------------
\* Symmetry of the age bands

\* b lies in the band of a
InBand(a, b) == get_age_range(a)[1] <= b /\ b <= get_age_range(a)[2]

\* C24: for ages a and b from 14 to 18, b is in the band of a iff a is in the
\* band of b iff they differ by at most 2; so find_match returns the
\* candidate of the first row of its query whenever the query has a row, and
\* returns no match only when the query has none.
C24_AgeSymmetry ==
    [][/\ \A u, v \in 1..Len(users') :
              LET a == users'[u].age
                  b == users'[v].age
              IN  (a \in 14..18 /\ b \in 14..18) =>
                      /\ InBand(a, b) <=> InBand(b, a)
                      /\ InBand(a, b) <=> (a - b <= 2 /\ b - a <= 2)
       /\ HandlerSearched =>
              LET rows == MatchRows(users, queue, h.user, h.role, h.problem)
              IN  IF rows = {}
                  THEN h'.pc = "idle"
                  ELSE /\ h'.pc = "create"
                       /\ h'.match = queue[FirstRow(queue, rows)].user_id]_vars

\* a 16-year-old has been matched with the first of two waiting users, aged
\* 14 and 18
C24_FirstOfTwoSelected ==
    /\ h.pc = "create"
    /\ Len(queue) = 3
    /\ h.match = queue[1].user_id
    /\ users[h.user].age = 16
    /\ {users[queue[1].user_id].age, users[queue[2].user_id].age} = {14, 18}

----------------------------------------------------------------------------
\* One chat at a time

\* C25: a user who has a current chat gets no second one: no chat is created
\* for a requester whose current-chat reference is set, so with one handler
\* at a time and no periodic job every user takes part in at most one active
\* chat and every active chat is the current chat of both its participants.
C25_NoSecondChat ==
    /\ [][(h.pc = "create" /\ ChatCreated) => users[h.user].current_chat_id = None]_vars
    /\ [](\A u \in 1..Len(users) : Cardinality(ActiveChatsOf(u)) <= 1)
    /\ [](\A c \in 1..Len(chats) :
             chats[c].is_active =>
                 \A p \in Participants(chats[c]) : users[p].current_chat_id = c)

\* the users whose current-chat reference is chat c
ReferencedBy(c) == {u \in 1..Len(users) : users[u].current_chat_id = c}

\* C26: whenever the current-chat reference of a user is set, the chat it
\* names exists, is active, has no end time and has the user as one of its
\* two participants; a chat that has been ended is referenced by no user.
C26_ReferenceValidity ==
    /\ \A u \in 1..Len(users) :
           LET cid == users[u].current_chat_id
           IN  cid # None =>
                   /\ cid \in 1..Len(chats)
                   /\ chats[cid].is_active
                   /\ chats[cid].ended_at = None
                   /\ u \in Participants(chats[cid])
    /\ \A c \in 1..Len(chats) : ~chats[c].is_active => ReferencedBy(c) = {}

\* a first chat has been ended and a second one is the current chat of both
\* its participants
C26_EndedAndCurrent ==
    /\ Len(chats) = 2
    /\ ~chats[1].is_active
    /\ chats[1].ended_at # None
    /\ chats[2].is_active
    /\ ReferencedBy(2) = Participants(chats[2])

\* C27: ending chat c changes only the active flag and end time of c, the
\* current-chat references that point to c, and the history rows of the two
\* participants of c; every other chat stays as it is and a reference to
\* another chat than c is never cleared.
C27_EndChatFrame ==
    [][\A a \in Accounts :
          LET uid == UserByTelegram(users, a)
          IN  (/\ uid # None
               /\ ~users[uid].is_banned
               /\ users[uid].current_chat_id \in 1..Len(chats)
               /\ handle_callback(a, <<"end", "_", "chat">>)) =>
                  LET c == users[uid].current_chat_id
                  IN  /\ Len(chats') = Len(chats)
                      /\ \A d \in 1..Len(chats) : d # c => chats'[d] = chats[d]
                      /\ chats'[c] = [chats[c] EXCEPT !.is_active = chats'[c].is_active,
                                                      !.ended_at = chats'[c].ended_at]
                      /\ Len(users') = Len(users)
                      /\ \A u \in 1..Len(users) :
                             /\ users'[u] = [users[u] EXCEPT
                                                !.current_chat_id = users'[u].current_chat_id]
                             /\ users[u].current_chat_id # c => users'[u] = users[u]
                      /\ Len(history') >= Len(history)
                      /\ \A i \in 1..Len(history') :
                             (i > Len(history) \/ history'[i] # history[i]) =>
                                 history'[i].user_id \in Participants(chats[c])
                      /\ UNCHANGED <<queue, messages>>]_vars

----------------------------------------------------------------------------
\* Transcripts

\* C28: a view_chat_<id> request shows the messages of the chat only to one
\* of its two participants: a user who never took part in the chat is shown
\* no message text of it.
C28_TranscriptConfidentiality ==
    [][\A a \in Accounts, c \in 1..Len(chats) :
          LET uid == UserByTelegram(users, a)
          IN  (/\ uid # None
               /\ uid \notin Participants(chats[c])
               /\ handle_callback(a, <<"view", "_", "chat", "_", Str(c)>>)) =>
                  \A i \in 1..Len(out') :
                      /\ out'[i].kind # "transcript"
                      /\ \A m \in 1..Len(messages) :
                             messages[m].chat_id = c =>
                                 \A k \in 1..Len(out'[i].body) :
                                     out'[i].body[k] # messages[m].text]_vars

====
